---- MODULE Spec2Model ----
(***************************************************************************)
(* Model of the reefer telemetry simulator                                 *)
(* (simulator/domain/reefer_simulator.py) and of the Kafka producer        *)
(* wrapper (scoring/KcProducer.py).                                        *)
(*                                                                         *)
(* Floating-point values are held as integers in units of 1/Scale: with    *)
(* Scale = 30 every mean, every standard deviation times a deviate, the    *)
(* 0.8 degree step and the thresholds 0 and CO2_LEVEL are exact.           *)
(* A normal deviate z is held as Scale * z, so that                        *)
(*     gauss(mu, sigma) = mu + sigma * z                                   *)
(* becomes  Scale*mu + sigma * (Scale*z).                                  *)
(***************************************************************************)
EXTENDS Integers, Sequences, FiniteSets, TLC

Scale == 30

(* ---------------- module constants, reefer_simulator.py 15-21 ---------- *)
CO2_LEVEL == 4
O2_LEVEL == 21
POWER_LEVEL == (72 * Scale) \div 10
NB_RECORDS_IMPACTED == 7
DEFROST_LEVEL == 7

(* ---------------- bounds of the model ---------------------------------- *)
\* largest nb_records given to _simulatePowerOff run row by row
MaxRecords == 14
\* largest nb_records given to the ReeferSimulator generators
MaxRows == 2
\* largest nb_records of the runs that follow single episodes
MaxEpisodeRecords == 9
\* samples of line 109 that are exactly 0.0 in one run of the loop
MaxZeroSamples == 1
\* largest number of publishEvent calls
MaxPublish == 1

(* ---------------- helpers ---------------------------------------------- *)
Range(s) == {s[k] : k \in 1..Len(s)}

RECURSIVE SumTo(_, _)
\* s[1] + ... + s[k]
SumTo(s, k) == IF k = 0 THEN 0 ELSE SumTo(s, k - 1) + s[k]

\* Python's None and a present value, for nullable arguments
None == <<>>
Some(x) == <<x>>

\* random.gauss(mu, sigma) / np.random.normal(mu, sigma) on the deviate z
Gauss(mu, sigma, z) == mu + sigma * z

\* the default target temperature 4.4
TGOOD == (44 * Scale) \div 10

\* random.randint(lo, hi), both ends included, on the raw value z
RandInt(lo, hi, z) == lo + (z % (hi - lo + 1))

\* freq="15min", in minutes
FREQ_MINUTES == 15

(* ---------------- the seeded random streams ---------------------------- *)
\* A generator is [pos, tape]: tape is what the stream of the seed in use
\* has been seen to start with, pos the number of values consumed since the
\* last seeding.  Reading past the end of the tape fixes one more value of
\* the stream, taken from the set the reader offers.
Draw(rng, offer) ==
    {[z |-> v,
      rng |-> [pos |-> rng.pos + 1,
               tape |-> IF rng.pos < Len(rng.tape) THEN rng.tape
                        ELSE Append(rng.tape, v)]] :
        v \in IF rng.pos < Len(rng.tape) THEN {rng.tape[rng.pos + 1]} ELSE offer}

RECURSIVE DrawMany(_, _)
\* one value per element of offers, in order
DrawMany(rng, offers) ==
    IF offers = <<>> THEN {[zs |-> <<>>, rng |-> rng]}
    ELSE UNION {{[zs |-> <<d.z>> \o m.zs, rng |-> m.rng] :
                    m \in DrawMany(d.rng, Tail(offers))} :
                d \in Draw(rng, Head(offers))}

(* ---------------- _simulatePowerOff: one pass of the loop body --------- *)
\* the step does not grow with the counter
Drift_Fixed(count) == (8 * Scale) \div 10

\* 0.8 * count_pwr
Drift(count) == ((8 * Scale) \div 10) * count

\* an episode that lasts one row too many
PowerOffRow_LongEpisode(s, t, p, c) ==
    LET oldtemp == s.temp
        pwrc1 == IF s.pwrc = 0 THEN c ELSE p + s.pwrc
        enter == p < 0
        cont == ~enter /\ 0 < s.count_pwr /\ s.count_pwr <= NB_RECORDS_IMPACTED
        count1 == IF enter \/ cont THEN s.count_pwr + 1 ELSE s.count_pwr
        flag == count1 = NB_RECORDS_IMPACTED + 1
    IN  [temp |-> IF enter THEN oldtemp
                  ELSE IF cont THEN oldtemp + Drift(count1) ELSE t,
         pwr |-> IF enter \/ cont THEN 0 ELSE p,
         maintenance_flag |-> IF flag THEN 1 ELSE 0,
         count_pwr |-> IF flag THEN 0 ELSE count1,
         pwrc |-> IF flag THEN 0 ELSE pwrc1]

\* an episode that is flagged one row too early
PowerOffRow_ShortEpisode(s, t, p, c) ==
    LET oldtemp == s.temp
        pwrc1 == IF s.pwrc = 0 THEN c ELSE p + s.pwrc
        enter == p < 0
        cont == ~enter /\ 0 < s.count_pwr /\ s.count_pwr < NB_RECORDS_IMPACTED
        count1 == IF enter \/ cont THEN s.count_pwr + 1 ELSE s.count_pwr
        flag == count1 = NB_RECORDS_IMPACTED - 1
    IN  [temp |-> IF enter THEN oldtemp
                  ELSE IF cont THEN oldtemp + Drift(count1) ELSE t,
         pwr |-> IF enter \/ cont THEN 0 ELSE p,
         maintenance_flag |-> IF flag THEN 1 ELSE 0,
         count_pwr |-> IF flag THEN 0 ELSE count1,
         pwrc |-> IF flag THEN 0 ELSE pwrc1]

\* the continuation branch of line 122 left out: only negative samples count
PowerOffRow_NoLatch(s, t, p, c) ==
    LET oldtemp == s.temp
        pwrc1 == IF s.pwrc = 0 THEN c ELSE p + s.pwrc
        enter == p < 0
        count1 == IF enter THEN s.count_pwr + 1 ELSE s.count_pwr
        flag == count1 = NB_RECORDS_IMPACTED
    IN  [temp |-> IF enter THEN oldtemp ELSE t,
         pwr |-> IF enter THEN 0 ELSE p,
         maintenance_flag |-> IF flag THEN 1 ELSE 0,
         count_pwr |-> IF flag THEN 0 ELSE count1,
         pwrc |-> IF flag THEN 0 ELSE pwrc1]

\* the flagged row keeps the consumption accumulator
PowerOffRow_KeepConsumption(s, t, p, c) ==
    LET oldtemp == s.temp
        pwrc1 == IF s.pwrc = 0 THEN c ELSE p + s.pwrc
        enter == p < 0
        cont == ~enter /\ 0 < s.count_pwr /\ s.count_pwr < NB_RECORDS_IMPACTED
        count1 == IF enter \/ cont THEN s.count_pwr + 1 ELSE s.count_pwr
        flag == count1 = NB_RECORDS_IMPACTED
    IN  [temp |-> IF enter THEN oldtemp
                  ELSE IF cont THEN oldtemp + Drift(count1) ELSE t,
         pwr |-> IF enter \/ cont THEN 0 ELSE p,
         maintenance_flag |-> IF flag THEN 1 ELSE 0,
         count_pwr |-> IF flag THEN 0 ELSE count1,
         pwrc |-> pwrc1]

\* the accumulator adds the emitted Power, after the branches
PowerOffRow_EmittedPower(s, t, p, c) ==
    LET oldtemp == s.temp
        enter == p < 0
        cont == ~enter /\ 0 < s.count_pwr /\ s.count_pwr < NB_RECORDS_IMPACTED
        count1 == IF enter \/ cont THEN s.count_pwr + 1 ELSE s.count_pwr
        flag == count1 = NB_RECORDS_IMPACTED
        pwr1 == IF enter \/ cont THEN 0 ELSE p
        pwrc1 == IF s.pwrc = 0 THEN c ELSE pwr1 + s.pwrc
    IN  [temp |-> IF enter THEN oldtemp
                  ELSE IF cont THEN oldtemp + Drift(count1) ELSE t,
         pwr |-> pwr1,
         maintenance_flag |-> IF flag THEN 1 ELSE 0,
         count_pwr |-> IF flag THEN 0 ELSE count1,
         pwrc |-> IF flag THEN 0 ELSE pwrc1]

\* line 119 left out: a negative sample is emitted as it is
PowerOffRow_NegativePower(s, t, p, c) ==
    LET oldtemp == s.temp
        pwrc1 == IF s.pwrc = 0 THEN c ELSE p + s.pwrc
        enter == p < 0
        cont == ~enter /\ 0 < s.count_pwr /\ s.count_pwr < NB_RECORDS_IMPACTED
        count1 == IF enter \/ cont THEN s.count_pwr + 1 ELSE s.count_pwr
        flag == count1 = NB_RECORDS_IMPACTED
    IN  [temp |-> IF enter THEN oldtemp
                  ELSE IF cont THEN oldtemp + Drift(count1) ELSE t,
         pwr |-> IF cont THEN 0 ELSE p,
         maintenance_flag |-> IF flag THEN 1 ELSE 0,
         count_pwr |-> IF flag THEN 0 ELSE count1,
         pwrc |-> IF flag THEN 0 ELSE pwrc1]

\* a sample that is not negative ends the episode
PowerOffRow_Interrupted(s, t, p, c) ==
    LET oldtemp == s.temp
        pwrc1 == IF s.pwrc = 0 THEN c ELSE p + s.pwrc
        enter == p < 0
        count1 == IF enter THEN s.count_pwr + 1 ELSE 0
        flag == count1 = NB_RECORDS_IMPACTED
    IN  [temp |-> IF enter THEN oldtemp ELSE t,
         pwr |-> IF enter THEN 0 ELSE p,
         maintenance_flag |-> IF flag THEN 1 ELSE 0,
         count_pwr |-> IF flag THEN 0 ELSE count1,
         pwrc |-> IF flag THEN 0 ELSE pwrc1]

\* s: the state carried into the row [temp, count_pwr, pwrc];
\* t, p: the samples of lines 107 and 109; c: the sample of line 111, used
\* only when the carried pwrc is 0.
\* Result: the state carried out of the row and the four emitted values.
PowerOffRow(s, t, p, c) ==
    LET oldtemp == s.temp
        \* lines 110-114
        pwrc1 == IF s.pwrc = 0 THEN c ELSE p + s.pwrc
        \* line 118
        enter == p < 0
        \* line 122
        cont == ~enter /\ 0 < s.count_pwr /\ s.count_pwr < NB_RECORDS_IMPACTED
        count1 == IF enter \/ cont THEN s.count_pwr + 1 ELSE s.count_pwr
        \* line 127
        flag == count1 = NB_RECORDS_IMPACTED
    IN  [temp |-> IF enter THEN oldtemp
                  ELSE IF cont THEN oldtemp + Drift(count1) ELSE t,
         pwr |-> IF enter \/ cont THEN 0 ELSE p,
         maintenance_flag |-> IF flag THEN 1 ELSE 0,
         count_pwr |-> IF flag THEN 0 ELSE count1,
         pwrc |-> IF flag THEN 0 ELSE pwrc1]

(* ---------------- data frames ---------------------------------------- *)
\* A frame is [columns, data]: the column names in order, and each column's
\* values.
NoFrame == [columns |-> <<>>, data |-> [c \in {} |-> <<>>]]

\* df[name] = vals: a new column goes last, an old one keeps its place
SetColumn(df, name, vals) ==
    [columns |-> IF name \in Range(df.columns) THEN df.columns
                 ELSE Append(df.columns, name),
     data |-> [c \in (DOMAIN df.data) \cup {name} |->
                  IF c = name THEN vals ELSE df.data[c]]]

\* df[order]
Select(df, order) ==
    [columns |-> order, data |-> [c \in Range(order) |-> df.data[c]]]

\* np.repeat(v, n)
Repeat(v, n) == [k \in 1..n |-> v]

\* lines 152-155
COLUMN_ORDER ==
    <<"Timestamp", "ID", "Temperature(celsius)", "Target_Temperature(celsius)",
      "Power", "PowerConsumption", "ContentType", "O2", "CO2", "Time_Door_Open",
      "Maintenance_Required", "Defrost_Cycle">>

(* ---------------- _generateTimestamps ---------------------------------- *)
\* the start time is never taken from the argument
_generateTimestamps_IgnoreStart(n, start_time, now) ==
    [k \in 1..n |-> now + FREQ_MINUTES * (k - 1)]

\* every row carries the start time
_generateTimestamps_NoStep(n, start_time, now) ==
    LET t0 == IF start_time = None THEN now ELSE start_time[1]
    IN  [k \in 1..n |-> t0]

\* now: what datetime.datetime.today() returns at the call
_generateTimestamps(n, start_time, now) ==
    LET t0 == IF start_time = None THEN now ELSE start_time[1]
    IN  [k \in 1..n |-> t0 + FREQ_MINUTES * (k - 1)]

(* ---------------- _generateStationaryCols ------------------------------ *)
\* the deviates offered to each reader of a fresh stream position
RawContentType == {2}
RawO2 == {0}
RawCO2 == {-60, -40, 0, 30}
RawDoor == {0}
RawTemperature == {30}
RawPower == {-40, 0}
RawDefrost == {3}

\* the readers of lines 67-74, column after column
StationaryOffers(n) ==
    LET offer == <<RawO2, RawCO2, RawDoor, RawTemperature, RawPower, RawDefrost>>
    IN  [k \in 1..(6 * n) |-> offer[((k - 1) \div n) + 1]]

\* the j-th block of n values of zs
Block(zs, j, n) == [k \in 1..n |-> zs[(j - 1) * n + k]]

\* lines 59-76
StationaryFrame(n, cid, content_type, tgood, zs) ==
    [columns |-> <<"ID", "ContentType", "Target_Temperature(celsius)", "O2",
                   "CO2", "Time_Door_Open", "Temperature(celsius)", "Power",
                   "Defrost_Cycle">>,
     data |->
        [c \in {"ID", "ContentType", "Target_Temperature(celsius)", "O2", "CO2",
                 "Time_Door_Open", "Temperature(celsius)", "Power",
                 "Defrost_Cycle"} |->
            CASE c = "ID" -> Repeat(cid, n)
              [] c = "ContentType" -> Repeat(content_type, n)
              [] c = "Target_Temperature(celsius)" -> Repeat(tgood, n)
              [] c = "O2" ->
                    [k \in 1..n |-> Gauss(O2_LEVEL * Scale, 3, Block(zs, 1, n)[k])]
              [] c = "CO2" ->
                    [k \in 1..n |-> Gauss(CO2_LEVEL * Scale, 3, Block(zs, 2, n)[k])]
              [] c = "Time_Door_Open" ->
                    [k \in 1..n |-> Gauss(30 * Scale, 2, Block(zs, 3, n)[k])]
              [] c = "Temperature(celsius)" ->
                    [k \in 1..n |-> Gauss(tgood, 2, Block(zs, 4, n)[k])]
              [] c = "Power" ->
                    [k \in 1..n |-> Gauss(POWER_LEVEL, 6, Block(zs, 5, n)[k])]
              [] c = "Defrost_Cycle" ->
                    [k \in 1..n |-> Block(zs, 6, n)[k] % DEFROST_LEVEL]]]

\* The outcomes of _generateStationaryCols(n, cid, content_type, tgood) on
\* the generators py (random) and np (numpy.random): each is
\* [exc, df, py, np].  A negative n raises ValueError in np.repeat (line 62),
\* after line 58 has read the content type.
_generateStationaryCols(n, cid, content_type, tgood, py, np) ==
    LET cts == IF content_type = None
               THEN {[v |-> RandInt(1, 5, d.z), py |-> d.rng] :
                        d \in Draw(py, RawContentType)}
               ELSE {[v |-> content_type[1], py |-> py]}
    IN  IF n < 0
        THEN {[exc |-> "ValueError", df |-> NoFrame, py |-> c.py, np |-> np] :
                 c \in cts}
        ELSE UNION {{[exc |-> "",
                      df |-> StationaryFrame(n, cid, c.v, tgood, m.zs),
                      py |-> c.py, np |-> m.rng] :
                        m \in DrawMany(np, StationaryOffers(n))} :
                    c \in cts}

(* ---------------- _simulatePowerOff as one call ------------------------ *)
RawInitTemp == {0}
RawRowTemp == {0}
RawRowPower == {-40}
RawPwrc == {0}

\* lines 105-136 for one row, on the run m = [s, cols, py] of the rows
\* before it: the samples are read in the order of lines 107, 109, 111
PowerOffStep(m, tgood) ==
    UNION {UNION {
        {LET r == PowerOffRow(m.s, Gauss(tgood, 2, dt.z),
                              Gauss(POWER_LEVEL, 6, dp.z),
                              Gauss(POWER_LEVEL, 10, dc.z))
         IN  [s |-> [temp |-> r.temp, count_pwr |-> r.count_pwr,
                     pwrc |-> r.pwrc],
              cols |-> [temp |-> Append(m.cols.temp, r.temp),
                        maint |-> Append(m.cols.maint, r.maintenance_flag),
                        power |-> Append(m.cols.power, r.pwr),
                        pwrc |-> Append(m.cols.pwrc, r.pwrc)],
              py |-> dc.rng] :
            dc \in IF m.s.pwrc = 0 THEN Draw(dp.rng, RawPwrc)
                   ELSE {[z |-> 0, rng |-> dp.rng]}} :
        dp \in Draw(dt.rng, RawRowPower)} :
        dt \in Draw(m.py, RawRowTemp)}

RECURSIVE PowerOffRuns(_, _, _)
\* the runs of the first k rows
PowerOffRuns(k, tgood, py) ==
    IF k = 0
    THEN {[s |-> [temp |-> Gauss(tgood, 3, d.z), count_pwr |-> 0, pwrc |-> 0],
           cols |-> [temp |-> <<>>, maint |-> <<>>, power |-> <<>>,
                     pwrc |-> <<>>],
           py |-> d.rng] : d \in Draw(py, RawInitTemp)}
    ELSE UNION {PowerOffStep(m, tgood) : m \in PowerOffRuns(k - 1, tgood, py)}

\* lines 96-143: the outcomes [cols, py] of _simulatePowerOff(n, tgood)
_simulatePowerOff(n, tgood, py) ==
    {[cols |-> m.cols, py |-> m.py] : m \in PowerOffRuns(n, tgood, py)}

(* ---------------- ReeferSimulator -------------------------------------- *)
\* an outcome of a generator: what it returns or raises, and the generators
\* as it leaves them
Raised(exc, py, np) ==
    [kind |-> "raise", exc |-> exc, df |-> NoFrame, py |-> py, np |-> np]
Returned(df, py, np) ==
    [kind |-> "DataFrame", exc |-> "", df |-> df, py |-> py, np |-> np]

\* lines 182-192; a is [cid, nb_records, tgood, content_type, start_time]
generatePowerOff(a, py, np, now) ==
    UNION {
        IF st.exc # "" THEN {Raised(st.exc, st.py, st.np)}
        ELSE {LET df1 == SetColumn(st.df, "Timestamp",
                            _generateTimestamps(a.nb_records, a.start_time, now))
                  df2 == SetColumn(df1, "Temperature(celsius)", sm.cols.temp)
                  df3 == SetColumn(df2, "Maintenance_Required", sm.cols.maint)
                  df4 == SetColumn(df3, "Power", sm.cols.power)
                  df5 == SetColumn(df4, "PowerConsumption", sm.cols.pwrc)
              IN  Returned(Select(df5, COLUMN_ORDER), sm.py, st.np) :
                 sm \in _simulatePowerOff(a.nb_records, a.tgood, st.py)} :
        st \in _generateStationaryCols(a.nb_records, a.cid, a.content_type,
                                      a.tgood, py, np)}

\* df["Power"].cumsum()
Cumsum_Shifted(col) == [k \in 1..Len(col) |-> SumTo(col, k - 1)]

RECURSIVE CumsumFrom(_, _, _)
CumsumFrom(col, k, acc) ==
    IF k > Len(col) THEN <<>>
    ELSE <<acc + col[k]>> \o CumsumFrom(col, k + 1, acc + col[k])

Cumsum(col) == CumsumFrom(col, 1, 0)

\* (df["CO2"] > CO2_LEVEL) | (df["CO2"] < 0), as 0/1
Co2Label_AtLeast(co2) ==
    IF co2 >= CO2_LEVEL * Scale \/ co2 < 0 THEN 1 ELSE 0

Co2Label(co2) == IF co2 > CO2_LEVEL * Scale \/ co2 < 0 THEN 1 ELSE 0

\* the target temperature written over the baseline Temperature
generateCo2_OverlaysTemperature(a, py, np, now) ==
    {IF st.exc # "" THEN Raised(st.exc, st.py, st.np)
     ELSE LET df1 == SetColumn(st.df, "Timestamp",
                        _generateTimestamps(a.nb_records, a.start_time, now))
              df2 == SetColumn(df1, "PowerConsumption",
                               Cumsum(df1.data["Power"]))
              df3 == SetColumn(df2, "Maintenance_Required",
                               [k \in 1..Len(df2.data["CO2"]) |->
                                   Co2Label(df2.data["CO2"][k])])
              df4 == SetColumn(df3, "Temperature(celsius)",
                               Repeat(a.tgood, Len(df3.data["CO2"])))
          IN  Returned(Select(df4, COLUMN_ORDER), st.py, st.np) :
        st \in _generateStationaryCols(a.nb_records, a.cid, a.content_type,
                                      a.tgood, py, np)}

\* lines 249-254
generateCo2(a, py, np, now) ==
    {IF st.exc # "" THEN Raised(st.exc, st.py, st.np)
     ELSE LET df1 == SetColumn(st.df, "Timestamp",
                        _generateTimestamps(a.nb_records, a.start_time, now))
              df2 == SetColumn(df1, "PowerConsumption",
                               Cumsum(df1.data["Power"]))
              df3 == SetColumn(df2, "Maintenance_Required",
                               [k \in 1..Len(df2.data["CO2"]) |->
                                   Co2Label(df2.data["CO2"][k])])
          IN  Returned(Select(df3, COLUMN_ORDER), st.py, st.np) :
        st \in _generateStationaryCols(a.nb_records, a.cid, a.content_type,
                                      a.tgood, py, np)}

\* line 216 and line 279: the bare names generatePowerOff and generateCo2
\* are no names of the module (they are methods of the class), so the first
\* statement of each tuple variant raises NameError; lines 220-225 and
\* 283-288 are never reached.
generatePowerOffTuples(a, py, np, now) == {Raised("NameError", py, np)}
generateCo2Tuples(a, py, np, now) == {Raised("NameError", py, np)}

(* ---------------- deviates offered to the row-by-row run --------------- *)
\* line 102: the initial temperature (5.4), off the candidates of line 107
SimInitTemps == {Gauss(TGOOD, 3, z) : z \in {10}}
\* line 107: the candidate temperature
SimTemps == {Gauss(TGOOD, 2, z) : z \in {0}}
\* line 109: the candidate power: negative (-0.8), exactly 0, positive (7.2)
SimPowers == {Gauss(POWER_LEVEL, 6, z) : z \in {-40, -36, 0}}
\* line 111: the reseeded consumption (3.2): four samples of -0.8 added to
\* it make exactly 0
SimPwrcs == {Gauss(POWER_LEVEL, 10, z) : z \in {-12}}

VARIABLES
    \* _simulatePowerOff run row by row
    pc_sim,                 \* "call", "loop" or "return"
    nb_records,             \* the argument
    temp, count_pwr, pwrc,  \* the locals carried from row to row
    new_temp, new_maint_req, new_power, new_power_consumption,
                            \* the written prefix of the four arrays
    sampled_power,          \* history: the sample of line 109 of each row
    carried,                \* history: [temp, count_pwr, pwrc] as each row
                            \* finds them at line 105
    \* a caller of ReeferSimulator
    args,                   \* the arguments it passes: [cid, nb_records,
                            \* tgood, content_type, start_time]
    py, np,                 \* the generators of random and numpy.random
    ret,                    \* the last call: [gen, now, out]
    prev,                   \* history: the outcome of the call before it,
                            \* kept while the last call repeats that call
    \* KcProducer
    kc_calls,               \* publishEvent calls made
    kc_out,                 \* how the last publishEvent ended
    produced,               \* messages handed to producer.produce
    reported                \* messages delivery_report was called for

simvars == <<pc_sim, nb_records, temp, count_pwr, pwrc, new_temp,
             new_maint_req, new_power, new_power_consumption, sampled_power,
             carried>>

callvars == <<args, py, np, ret, prev>>

kcvars == <<kc_calls, kc_out, produced, reported>>

vars == <<simvars, callvars, kcvars>>

\* nothing has been called
IdleSim ==
    /\ pc_sim = "idle"
    /\ nb_records = 0
    /\ temp = 0
    /\ count_pwr = 0
    /\ pwrc = 0
    /\ new_temp = <<>>
    /\ new_maint_req = <<>>
    /\ new_power = <<>>
    /\ new_power_consumption = <<>>
    /\ sampled_power = <<>>
    /\ carried = <<>>

\* what the caller sees of an outcome
Outcome(o) == [kind |-> o.kind, exc |-> o.exc, df |-> o.df]

NoCall ==
    [gen |-> "none", now |-> 0,
     out |-> [kind |-> "none", exc |-> "", df |-> NoFrame]]

IdleCaller ==
    /\ args = [cid |-> "101", nb_records |-> 0, tgood |-> TGOOD,
               content_type |-> None, start_time |-> None]
    /\ py = [pos |-> 0, tape |-> <<>>]
    /\ np = [pos |-> 0, tape |-> <<>>]
    /\ ret = NoCall
    /\ prev = None

IdleKc ==
    /\ kc_calls = 0
    /\ kc_out = "none"
    /\ produced = <<>>
    /\ reported = <<>>

(* ---------------- _simulatePowerOff, row by row ------------------------ *)
InitSim ==
    /\ pc_sim = "call"
    /\ nb_records \in 0..MaxRecords
    /\ temp = 0
    /\ count_pwr = 0
    /\ pwrc = 0
    /\ new_temp = <<>>
    /\ new_maint_req = <<>>
    /\ new_power = <<>>
    /\ new_power_consumption = <<>>
    /\ sampled_power = <<>>
    /\ carried = <<>>
    /\ IdleCaller
    /\ IdleKc

\* lines 96-104
SimEnter ==
    /\ pc_sim = "call"
    /\ \E t0 \in SimInitTemps : temp' = t0
    /\ count_pwr' = 0
    /\ pwrc' = 0
    /\ pc_sim' = "loop"
    /\ UNCHANGED <<nb_records, new_temp, new_maint_req, new_power,
                   new_power_consumption, sampled_power, carried>>
    /\ UNCHANGED <<callvars, kcvars>>

ZeroSamples == Cardinality({k \in 1..Len(sampled_power) : sampled_power[k] = 0})

\* the samples offered to line 109
PowerOffered ==
    IF ZeroSamples < MaxZeroSamples THEN SimPowers ELSE SimPowers \ {0}

\* lines 105-136, one iteration
SimRow ==
    /\ pc_sim = "loop"
    /\ Len(new_temp) < nb_records
    /\ \E t \in SimTemps, p \in PowerOffered, c \in SimPwrcs :
         LET r == PowerOffRow([temp |-> temp, count_pwr |-> count_pwr,
                               pwrc |-> pwrc], t, p, c)
         IN  /\ temp' = r.temp
             /\ count_pwr' = r.count_pwr
             /\ pwrc' = r.pwrc
             /\ new_temp' = Append(new_temp, r.temp)
             /\ new_maint_req' = Append(new_maint_req, r.maintenance_flag)
             /\ new_power' = Append(new_power, r.pwr)
             /\ new_power_consumption' = Append(new_power_consumption, r.pwrc)
             /\ sampled_power' = Append(sampled_power, p)
             /\ carried' = Append(carried, [temp |-> temp,
                                            count_pwr |-> count_pwr,
                                            pwrc |-> pwrc])
    /\ UNCHANGED <<pc_sim, nb_records>>
    /\ UNCHANGED <<callvars, kcvars>>

\* lines 138-143
SimReturn ==
    /\ pc_sim = "loop"
    /\ Len(new_temp) = nb_records
    /\ pc_sim' = "return"
    /\ UNCHANGED <<nb_records, temp, count_pwr, pwrc, new_temp, new_maint_req,
                   new_power, new_power_consumption, sampled_power, carried>>
    /\ UNCHANGED <<callvars, kcvars>>

NextSim == SimEnter \/ SimRow \/ SimReturn

SpecPowerOff == InitSim /\ [][NextSim]_vars

\* the same loop on the shorter runs that hold one episode and what follows it
InitEpisode ==
    /\ pc_sim = "call"
    /\ nb_records \in 0..MaxEpisodeRecords
    /\ temp = 0
    /\ count_pwr = 0
    /\ pwrc = 0
    /\ new_temp = <<>>
    /\ new_maint_req = <<>>
    /\ new_power = <<>>
    /\ new_power_consumption = <<>>
    /\ sampled_power = <<>>
    /\ carried = <<>>
    /\ IdleCaller
    /\ IdleKc

SpecEpisode == InitEpisode /\ [][NextSim]_vars

(* ---------------- a caller of the four generators ---------------------- *)
\* the arguments a caller passes; Some(9) is a content type outside 1..5
Arguments ==
    [cid : {"101"}, nb_records : (-1)..MaxRows, tgood : {TGOOD},
     content_type : {None, Some(3), Some(9)},
     start_time : {None, Some(100)}]

Init ==
    /\ IdleSim
    /\ args \in Arguments
    /\ py = [pos |-> 0, tape |-> <<>>]
    /\ np = [pos |-> 0, tape |-> <<>>]
    /\ ret = NoCall
    /\ prev = None
    /\ IdleKc

\* what datetime.datetime.today() can return, in minutes: two readings
Now == {0, 1}

\* both generators are at the start of the stream of the seed
Seeded == py.pos = 0 /\ np.pos = 0

\* A call of generator gen at time now whose outcomes are outs.  The caller
\* seeds both generators before each call: the model follows a stream from
\* its seed only, and the first values of a stream are as arbitrary as any
\* later stretch of it.
Call(gen, now, outs) ==
    /\ Seeded
    /\ \E o \in outs :
         /\ ret' = [gen |-> gen, now |-> now, out |-> Outcome(o)]
         /\ py' = o.py
         /\ np' = o.np
    /\ prev' = IF ret.gen = gen THEN Some(ret.out) ELSE None
    /\ UNCHANGED <<args, simvars, kcvars>>

CallGeneratePowerOff ==
    \E now \in Now :
        Call("generatePowerOff", now, generatePowerOff(args, py, np, now))

CallGeneratePowerOffTuples ==
    \E now \in Now :
        Call("generatePowerOffTuples", now,
             generatePowerOffTuples(args, py, np, now))

CallGenerateCo2 ==
    \E now \in Now : Call("generateCo2", now, generateCo2(args, py, np, now))

CallGenerateCo2Tuples ==
    \E now \in Now :
        Call("generateCo2Tuples", now, generateCo2Tuples(args, py, np, now))

\* random.seed(s); np.random.seed(s), with the seed s the caller always uses
Seed ==
    /\ ~Seeded
    /\ py' = [py EXCEPT !.pos = 0]
    /\ np' = [np EXCEPT !.pos = 0]
    /\ UNCHANGED <<args, ret, prev, simvars, kcvars>>

(* ---------------- KcProducer.publishEvent ------------------------------ *)
\* KcProducer.py lines 36-39.  Line 37 calls json.dumps, and the module never
\* imports json: the call raises NameError before producer.produce (line 38)
\* and producer.flush (line 39) are reached.
PublishEvent ==
    /\ kc_calls < MaxPublish
    /\ kc_calls' = kc_calls + 1
    /\ kc_out' = "NameError"
    /\ UNCHANGED <<produced, reported, simvars, callvars>>

Next ==
    \/ CallGeneratePowerOff
    \/ CallGeneratePowerOffTuples
    \/ CallGenerateCo2
    \/ CallGenerateCo2Tuples
    \/ Seed

Spec == Init /\ [][Next]_vars

\* a caller that generates rows and publishes them
NextPublish ==
    \/ CallGenerateCo2
    \/ PublishEvent

SpecPublish == Init /\ [][NextPublish]_vars

(* ---------------- the power-loss columns ------------------------------- *)
Rows == 1..Len(new_maint_req)
FlaggedRows == {k \in Rows : new_maint_req[k] = 1}
\* rows a..b all have Power == 0
ZeroPower(a, b) == \A k \in a..b : new_power[k] = 0

\* C1 as stated: in the power-loss scenario the run of consecutive zero-Power
\* rows that ends at a flagged row i is exactly NB_RECORDS_IMPACTED long: the
\* rows i-6..i have Power == 0 and row i-7, if it exists, does not.
C1_RunEndingAtFlagExactlySeven ==
    \A k \in FlaggedRows :
        /\ k >= NB_RECORDS_IMPACTED
        /\ ZeroPower(k - (NB_RECORDS_IMPACTED - 1), k)
        /\ k > NB_RECORDS_IMPACTED => new_power[k - NB_RECORDS_IMPACTED] # 0

\* C1 as amended: a flagged row i closes seven zero-Power rows i-6..i of
\* which only row i is flagged; row i-7, if it exists, has Power == 0 only
\* when it is itself flagged (the previous episode ended there) or when its
\* sample was exactly 0.
C1_FlagClosesSevenZeroRows ==
    \A k \in FlaggedRows :
        /\ k >= NB_RECORDS_IMPACTED
        /\ ZeroPower(k - (NB_RECORDS_IMPACTED - 1), k)
        /\ \A j \in (k - (NB_RECORDS_IMPACTED - 1))..(k - 1) : new_maint_req[j] = 0
        /\ (k > NB_RECORDS_IMPACTED /\ new_power[k - NB_RECORDS_IMPACTED] = 0)
              => \/ new_maint_req[k - NB_RECORDS_IMPACTED] = 1
                 \/ sampled_power[k - NB_RECORDS_IMPACTED] = 0

\* two episodes back to back: the flagged row 14 follows the flagged row 7
C1_Witness ==
    /\ Len(new_maint_req) = 2 * NB_RECORDS_IMPACTED
    /\ new_maint_req[2 * NB_RECORDS_IMPACTED] = 1
    /\ new_maint_req[NB_RECORDS_IMPACTED] = 1
    /\ new_power[NB_RECORDS_IMPACTED] = 0

\* C2 as stated: every maximal run of consecutive rows with Power == 0 is at
\* most NB_RECORDS_IMPACTED rows long.
C2_ZeroRunAtMostSeven ==
    \A k \in Rows :
        k > NB_RECORDS_IMPACTED => ~ZeroPower(k - NB_RECORDS_IMPACTED, k)

\* C2 as amended: a run of zero-Power rows exceeds NB_RECORDS_IMPACTED rows
\* only across the end of an episode or a sample of exactly 0: among any
\* eight consecutive rows with Power == 0, one of the first seven is flagged
\* or sampled exactly 0.
C2_ZeroRunSplitsEverySeven ==
    \A k \in Rows :
        (k > NB_RECORDS_IMPACTED /\ ZeroPower(k - NB_RECORDS_IMPACTED, k))
            => \E j \in (k - NB_RECORDS_IMPACTED)..(k - 1) :
                   new_maint_req[j] = 1 \/ sampled_power[j] = 0

\* eight zero-Power rows none of which sampled 0: an episode ended at row 7
\* and the sample of row 8 was negative again
C2_Witness ==
    /\ Len(new_power) > NB_RECORDS_IMPACTED
    /\ ZeroPower(1, NB_RECORDS_IMPACTED + 1)
    /\ \A k \in 1..(NB_RECORDS_IMPACTED + 1) : sampled_power[k] # 0
    /\ new_maint_req[NB_RECORDS_IMPACTED] = 1

\* C6: no row with index < 6 is flagged, two flagged rows are at least
\* NB_RECORDS_IMPACTED rows apart, and N rows hold at most N div 7 flags.
C6_FlagsSevenApart ==
    /\ \A k \in FlaggedRows : k >= NB_RECORDS_IMPACTED
    /\ \A j, k \in FlaggedRows : j < k => k - j >= NB_RECORDS_IMPACTED
    /\ Cardinality(FlaggedRows) <= Len(new_maint_req) \div NB_RECORDS_IMPACTED
    /\ pc_sim = "return" =>
          Cardinality(FlaggedRows) <= nb_records \div NB_RECORDS_IMPACTED

\* a returned run of 14 rows with the two flags it can hold, 7 rows apart
C6_Witness ==
    /\ pc_sim = "return"
    /\ nb_records = 2 * NB_RECORDS_IMPACTED
    /\ FlaggedRows = {NB_RECORDS_IMPACTED, 2 * NB_RECORDS_IMPACTED}

(* ---------------- the loop's carried state, row by row ---------------- *)
\* what row k leaves for the next row (lines 120-131)
CarriedOut(k) ==
    IF k < Len(carried) THEN carried[k + 1]
    ELSE [temp |-> temp, count_pwr |-> count_pwr, pwrc |-> pwrc]

\* count_pwr as line 127 finds it on row k
CountAt127(k) ==
    carried[k].count_pwr
        + (IF sampled_power[k] < 0
              \/ (0 < carried[k].count_pwr
                    /\ carried[k].count_pwr < NB_RECORDS_IMPACTED)
           THEN 1 ELSE 0)

\* the Temperature emitted by the row before row k, the initial temperature
\* of line 102 for the first row
PrevEmitted(k) == IF k = 1 THEN carried[1].temp ELSE new_temp[k - 1]

\* rows at which the run counter goes from 0 to 1
EpisodeStarts ==
    {k \in Rows : carried[k].count_pwr = 0 /\ CarriedOut(k).count_pwr = 1}

\* C13: an episode, once entered at row k, is not interrupted: whatever is
\* sampled afterwards, rows k..k+6 (as far as they exist) have Power == 0,
\* rows k..k+5 are not flagged and row k+6 is flagged.
C13_EpisodeRunsToTheFlag ==
    \A k \in EpisodeStarts :
        \A j \in k..(k + NB_RECORDS_IMPACTED - 1) :
            j \in Rows =>
                /\ new_power[j] = 0
                /\ new_maint_req[j] =
                      IF j = k + NB_RECORDS_IMPACTED - 1 THEN 1 ELSE 0

\* an episode entered at row k, followed by six samples that are all
\* positive, and flagged at row k+6
C13_Witness ==
    \E k \in EpisodeStarts :
        /\ k + NB_RECORDS_IMPACTED - 1 \in Rows
        /\ \A j \in (k + 1)..(k + NB_RECORDS_IMPACTED - 1) : sampled_power[j] > 0
        /\ new_maint_req[k + NB_RECORDS_IMPACTED - 1] = 1

\* C14: the counter carried from row to row is in 0..6; a row is flagged
\* exactly when the counter reached 7 on it, and then the counter and the
\* accumulator are reset and the row emits PowerConsumption == 0; every other
\* row is not flagged and carries its counter and accumulator on.
C14_FlagIffCounterReachedSeven ==
    /\ count_pwr \in 0..(NB_RECORDS_IMPACTED - 1)
    /\ \A k \in Rows :
          /\ carried[k].count_pwr \in 0..(NB_RECORDS_IMPACTED - 1)
          /\ new_maint_req[k] \in {0, 1}
          /\ new_maint_req[k] = 1 <=> CountAt127(k) = NB_RECORDS_IMPACTED
          /\ new_maint_req[k] = 1 =>
                /\ CarriedOut(k).count_pwr = 0
                /\ CarriedOut(k).pwrc = 0
                /\ new_power_consumption[k] = 0
          /\ new_maint_req[k] = 0 =>
                /\ CarriedOut(k).count_pwr = CountAt127(k)
                /\ CarriedOut(k).pwrc = new_power_consumption[k]

\* a flagged row that found a non-zero accumulator, and the row after it
\* finding counter and accumulator at 0
C14_Witness ==
    \E k \in FlaggedRows :
        /\ k < Len(carried)
        /\ carried[k].pwrc # 0
        /\ carried[k].count_pwr = NB_RECORDS_IMPACTED - 1
        /\ carried[k + 1].pwrc = 0
        /\ carried[k + 1].count_pwr = 0
        /\ new_power_consumption[k] = 0

\* C15: on a row whose sample is negative the emitted Temperature is the one
\* of the row before (the initial temperature on the first row), an episode
\* in progress or not; on a continuation row it is the one of the row before
\* plus 0.8 times the incremented counter; so Temperature never decreases
\* from a row to a row of an episode.
C15_TemperatureRecurrence ==
    \A k \in Rows :
        /\ carried[k].temp = PrevEmitted(k)
        /\ sampled_power[k] < 0 => new_temp[k] = PrevEmitted(k)
        /\ (sampled_power[k] >= 0 /\ 0 < carried[k].count_pwr
                /\ carried[k].count_pwr < NB_RECORDS_IMPACTED) =>
              new_temp[k] = PrevEmitted(k)
                  + ((8 * Scale) \div 10) * (carried[k].count_pwr + 1)
        /\ (sampled_power[k] < 0 \/ carried[k].count_pwr > 0) =>
              new_temp[k] >= PrevEmitted(k)

\* a first row with a negative sample keeping the initial temperature, a
\* negative sample inside an episode, and a continuation row at counter >= 2
C15_Witness ==
    /\ Len(new_temp) >= 1
    /\ sampled_power[1] < 0
    /\ new_temp[1] \in SimInitTemps
    /\ new_temp[1] \notin SimTemps
    /\ \E j, k \in Rows :
          /\ sampled_power[j] < 0
          /\ carried[j].count_pwr > 0
          /\ new_temp[j] = new_temp[j - 1]
          /\ sampled_power[k] >= 0
          /\ carried[k].count_pwr >= 2
          /\ new_temp[k] > new_temp[k - 1]

\* C16: each row finds the accumulator the row before left (0 on the first
\* row); found at 0 it is replaced by a fresh sample, the row's sample not
\* added, otherwise the row's sample as drawn, negative or not, is added to
\* it; a row that is not flagged emits the result, whatever its Power.
C16_ConsumptionRecurrence ==
    \A k \in Rows :
        /\ carried[k].pwrc = IF k = 1 THEN 0 ELSE new_power_consumption[k - 1]
        /\ new_maint_req[k] = 0 =>
              IF carried[k].pwrc = 0
              THEN new_power_consumption[k] \in SimPwrcs
              ELSE new_power_consumption[k] = carried[k].pwrc + sampled_power[k]

\* a zero-Power row whose negative sample changed PowerConsumption, and a
\* row reseeded because the sum of the row before was exactly 0
C16_Witness ==
    \E j, k \in Rows :
        /\ new_power[j] = 0
        /\ sampled_power[j] < 0
        /\ new_maint_req[j] = 0
        /\ carried[j].pwrc # 0
        /\ new_power_consumption[j] = carried[j].pwrc + sampled_power[j]
        /\ k > 1
        /\ new_maint_req[k - 1] = 0
        /\ new_power_consumption[k - 1] = 0
        /\ new_power_consumption[k] \in SimPwrcs

\* C19: the emitted Power is never negative, and it is 0 on every row that
\* finds the counter non-zero or whose sample is negative.
C19_PowerNeverNegative ==
    \A k \in Rows :
        /\ new_power[k] >= 0
        /\ (carried[k].count_pwr # 0 \/ sampled_power[k] < 0) => new_power[k] = 0

\* a negative sample emitted as 0, a positive sample emitted as 0 inside an
\* episode, and a positive sample emitted as it is outside one
C19_Witness ==
    \E i, j, k \in Rows :
        /\ sampled_power[i] < 0 /\ new_power[i] = 0
        /\ sampled_power[j] > 0 /\ carried[j].count_pwr # 0 /\ new_power[j] = 0
        /\ sampled_power[k] > 0 /\ new_power[k] = sampled_power[k]

(* ---------------- the generators' results ------------------------------ *)
Called(gens) == ret.gen \in gens
ReturnedFrame == ret.out.kind = "DataFrame"
Column(c) == ret.out.df.data[c]
Tuples == {"generatePowerOffTuples", "generateCo2Tuples"}

\* C3 as stated: a tuple variant called with a valid row count returns N
\* row-tuples whose Maintenance_Required is 0 on every row.
C3_TuplesForceZero ==
    (Called(Tuples) /\ args.nb_records >= 1) =>
        /\ ret.out.kind = "list"
        /\ Len(Column("Maintenance_Required")) = args.nb_records
        /\ \A k \in 1..args.nb_records : Column("Maintenance_Required")[k] = 0

\* C4 as stated: a generator called with N = 0 or N < 0 ends in an error and
\* returns no Dataset, not even an empty one.
C4_NonPositiveRowsRejected ==
    (~Called({"none"}) /\ args.nb_records <= 0) => ret.out.kind = "raise"

\* C5: in the frame generateCo2 returns, Maintenance_Required is 1 on the
\* rows with CO2 > 4 or CO2 < 0 and 0 on every other row, CO2 == 0 and
\* CO2 == 4 included.
C5_Co2Labeling ==
    (Called({"generateCo2"}) /\ ReturnedFrame) =>
        /\ Len(Column("Maintenance_Required")) = args.nb_records
        /\ \A k \in 1..args.nb_records :
              /\ Column("Maintenance_Required")[k] \in {0, 1}
              /\ Column("Maintenance_Required")[k] = 1
                    <=> \/ Column("CO2")[k] > CO2_LEVEL * Scale
                        \/ Column("CO2")[k] < 0

\* a returned CO2 frame with a row at exactly 0 and a row at exactly 4, both
\* labeled 0
C5_Witness ==
    /\ Called({"generateCo2"})
    /\ ReturnedFrame
    /\ \E j, k \in 1..args.nb_records :
          /\ Column("CO2")[j] = 0
          /\ Column("CO2")[k] = CO2_LEVEL * Scale
          /\ Column("Maintenance_Required")[j] = 0
          /\ Column("Maintenance_Required")[k] = 0

\* C7 as stated: two calls of one generator with the same seed and the same
\* arguments, the defaults included, return identical results, Timestamp
\* and ContentType included.
C7_Deterministic ==
    prev # None => ret.out = prev[1]

\* C7 as amended: two such calls end the same way, and when they return
\* frames these have the same columns, equal in every column but Timestamp;
\* the Timestamp columns are equal too when the start time is supplied.
C7_DeterministicButClock ==
    prev # None =>
        /\ ret.out.kind = prev[1].kind
        /\ ret.out.exc = prev[1].exc
        /\ ret.out.df.columns = prev[1].df.columns
        /\ \A c \in Range(ret.out.df.columns) \ {"Timestamp"} :
              ret.out.df.data[c] = prev[1].df.data[c]
        /\ args.start_time # None => ret.out.df = prev[1].df

\* generatePowerOff called twice after the same seed, with the content type
\* and the start time left to their defaults, at two readings of the clock
C7_Witness ==
    /\ prev # None
    /\ Called({"generatePowerOff"})
    /\ ReturnedFrame
    /\ args.nb_records = MaxRows
    /\ args.content_type = None
    /\ args.start_time = None
    /\ Column("Timestamp") # prev[1].df.data["Timestamp"]
    /\ Column("ContentType") = prev[1].df.data["ContentType"]

\* C8: in the frame generateCo2 returns, PowerConsumption[i] is the sum of
\* Power[0..i] of the same frame.
C8_ConsumptionIsPrefixSum ==
    (Called({"generateCo2"}) /\ ReturnedFrame) =>
        /\ Len(Column("PowerConsumption")) = args.nb_records
        /\ \A k \in 1..args.nb_records :
              Column("PowerConsumption")[k] = SumTo(Column("Power"), k)

\* a returned CO2 frame of MaxRows rows whose Power values differ
C8_Witness ==
    /\ Called({"generateCo2"})
    /\ ReturnedFrame
    /\ args.nb_records = MaxRows
    /\ Column("Power")[1] # Column("Power")[MaxRows]
    /\ Column("PowerConsumption")[MaxRows] # Column("Power")[MaxRows]

\* C9 as stated: every publishEvent call hands its message to the broker
\* client and returns, without waiting for the delivery report.
C9_PublishHandsOverAndReturns ==
    kc_calls > 0 =>
        /\ kc_out = "returned"
        /\ Len(produced) = kc_calls
        /\ Len(reported) <= Len(produced)

\* C10 as stated: every generation path called with a valid row count
\* returns the twelve canonical fields in the canonical order.
C10_CanonicalSchema ==
    (~Called({"none"}) /\ args.nb_records >= 1) =>
        /\ ret.out.kind \in {"DataFrame", "list"}
        /\ ret.out.df.columns = COLUMN_ORDER
        /\ DOMAIN ret.out.df.data = Range(COLUMN_ORDER)
        /\ Len(COLUMN_ORDER) = 12

\* C11: in every Dataset a generator returns, each Timestamp is exactly 15
\* minutes after the one of the row before, so the column is strictly
\* increasing.
C11_TimestampsQuarterHourApart ==
    (~Called({"none"}) /\ ret.out.kind \in {"DataFrame", "list"}) =>
        /\ Len(Column("Timestamp")) = args.nb_records
        /\ \A k \in 1..(args.nb_records - 1) :
              /\ Column("Timestamp")[k + 1] - Column("Timestamp")[k] = FREQ_MINUTES
              /\ Column("Timestamp")[k + 1] > Column("Timestamp")[k]

\* a frame of MaxRows >= 2 rows returned by a repeated call, its first
\* timestamp the supplied start time or the later reading of the clock
C11_Witness ==
    /\ ReturnedFrame
    /\ prev # None
    /\ args.nb_records = MaxRows
    /\ args.nb_records >= 2
    /\ Column("Timestamp")[2] = Column("Timestamp")[1] + FREQ_MINUTES
    /\ Column("Timestamp")[1] = IF args.start_time = None THEN 1
                                 ELSE args.start_time[1]

\* C12 as stated: a supplied content type outside 1..5 is rejected with an
\* error before any row is generated, and every returned Dataset has one
\* ContentType, the same on all rows, that lies in 1..5.
C12_ContentTypeInRange ==
    /\ (~Called({"none"}) /\ args.nb_records >= 1 /\ args.content_type # None
            /\ args.content_type[1] \notin 1..5) => ret.out.kind = "raise"
    /\ (~Called({"none"}) /\ ret.out.kind \in {"DataFrame", "list"}) =>
            \A k \in 1..Len(Column("ContentType")) :
                /\ Column("ContentType")[k] \in 1..5
                /\ Column("ContentType")[k] = Column("ContentType")[1]

(* ---------------- what the generators overlay ------------------------- *)
\* After a call that returned, the tapes hold what the call read: the
\* content type first on py when it was left to chance, the stationary
\* columns on np.
ContentTypeRead ==
    IF args.content_type = None THEN RandInt(1, 5, py.tape[1])
    ELSE args.content_type[1]

\* the frame _generateStationaryCols returned to the last call
Baseline ==
    StationaryFrame(args.nb_records, args.cid, ContentTypeRead, args.tgood,
                    np.tape)

\* the runs of _simulatePowerOff on what random holds after line 58
StateMachineRuns ==
    _simulatePowerOff(args.nb_records, args.tgood,
                      [pos |-> IF args.content_type = None THEN 1 ELSE 0,
                       tape |-> py.tape])

\* the stationary columns no generator writes again
KeptColumns ==
    {"ID", "Target_Temperature(celsius)", "ContentType", "O2", "CO2",
     "Time_Door_Open", "Defrost_Cycle"}

\* C17: generatePowerOff returns the state machine's Temperature, Power,
\* PowerConsumption and Maintenance_Required and every other column as the
\* stationary and timestamp generators produced it; generateCo2 returns the
\* baseline Temperature and Power too.
C17_OverlayFrame ==
    /\ (Called({"generatePowerOff"}) /\ ReturnedFrame) =>
          /\ \A c \in KeptColumns : Column(c) = Baseline.data[c]
          /\ Column("Timestamp") =
                _generateTimestamps(args.nb_records, args.start_time, ret.now)
          /\ StateMachineRuns # {}
          /\ \A sm \in StateMachineRuns :
                /\ Column("Temperature(celsius)") = sm.cols.temp
                /\ Column("Power") = sm.cols.power
                /\ Column("PowerConsumption") = sm.cols.pwrc
                /\ Column("Maintenance_Required") = sm.cols.maint
    /\ (Called({"generateCo2"}) /\ ReturnedFrame) =>
          /\ \A c \in KeptColumns \cup {"Temperature(celsius)", "Power"} :
                Column(c) = Baseline.data[c]
          /\ Column("Timestamp") =
                _generateTimestamps(args.nb_records, args.start_time, ret.now)

\* generatePowerOff then generateCo2 on the same seed: the first returned
\* Temperature and Power that are not the baseline's, the second returns the
\* baseline's
C17_Witness ==
    /\ Called({"generateCo2"})
    /\ ReturnedFrame
    /\ args.nb_records = MaxRows
    /\ Column("Power") = Baseline.data["Power"]
    /\ Column("Temperature(celsius)") = Baseline.data["Temperature(celsius)"]
    /\ Column("Temperature(celsius)")[1] # args.tgood
    /\ \E sm \in StateMachineRuns :
          /\ Len(sm.cols.power) = MaxRows
          /\ sm.cols.power # Baseline.data["Power"]
          /\ sm.cols.temp # Baseline.data["Temperature(celsius)"]

\* C18 as stated: each of the four generators, given a start timestamp,
\* returns rows of which the first carries that timestamp.
C18_SuppliedStartIsFirstTimestamp ==
    (~Called({"none"}) /\ args.nb_records >= 1 /\ args.start_time # None) =>
        /\ ret.out.kind \in {"DataFrame", "list"}
        /\ Column("Timestamp")[1] = args.start_time[1]

====
